---------------------------- MODULE Spec2Model ----------------------------
(***************************************************************************)
(* Model of the churn model lifecycle: feature preparation (data_prep.py), *)
(* training and artifact writes (train_model.py) and inference             *)
(* (predict.py, example_usage.py).                                         *)
(*                                                                         *)
(* Tables are records [cols, rows]: cols is the sequence of column names,  *)
(* rows a sequence of functions from column name to cell.  A cell is a     *)
(* number Num(v), a string Str(s) or the missing value NaN.                *)
(***************************************************************************)
EXTENDS Integers, Sequences, FiniteSets, TLC

VARIABLES
    store,       \* the artifact directory: path -> file content or Absent
    held_bundle, \* the preprocessing objects a caller holds in memory
    held_model,  \* the fitted estimator a caller holds in memory
    fit_median,  \* per numeric feature, the median the fit imputed with
    pc,          \* "idle", or "returned" after a call of the inference API
    call,        \* the last call of the inference API and what it returned
    tiered,      \* the last two probabilities tiered, each with its risk tier
    runs,        \* the number of training runs started
    trainer,     \* the training run in progress: its step and what it holds
    loader,      \* an inference call loading its model and bundle from the store
    ended,       \* the training runs that ended, in order: input and outcome
    prepared,    \* prepare_data_pipeline in progress: its step and what it holds
    tie_rank     \* the build's sort: among rows with equal keys, the row whose
                 \* position before the sort has the lower rank comes first

(***************************************************************************)
(* Bounds of the model.                                                    *)
(***************************************************************************)
\* largest number of rows of an inference batch
MaxRows == 2
\* probabilities are the multiples of 1 / (10 * Resolution) in [0, 1]
Resolution == 2
\* training runs over one store
MaxRuns == 2
\* ROC-AUC values are 1..MaxAuc, in units of 1 / MaxAuc
MaxAuc == 2
ProbDen == 10 * Resolution
\* label vectors given to a fit on its own have at most MaxLabels labels
MaxLabels == 4
\* the larger of the two test-split sizes given to generate_shap_analysis
MaxTestRows == 101

(***************************************************************************)
(* Cells and strings.                                                      *)
(***************************************************************************)
NaN == [k |-> "nan"]
\* Python's None, and a value that is not None
None == [k |-> "None"]
Some(v) == [k |-> "some", v |-> v]
Num(v) == [k |-> "num", v |-> v]
Str(s) == [k |-> "str", s |-> s]

IsNaN(c) == c.k = "nan"
IsNum(c) == c.k = "num"
IsStr(c) == c.k = "str"

\* The strings of the model with their code points: Python compares and
\* numpy sorts str values by code point (upper case before lower case).
CodePoints(s) ==
    CASE s = "Desktop" -> <<68, 101, 115, 107, 116, 111, 112>>
      [] s = "MISSING" -> <<77, 73, 83, 83, 73, 78, 71>>
      [] s = "Mobile"  -> <<77, 111, 98, 105, 108, 101>>
      [] s = "SmartTV" -> <<83, 109, 97, 114, 116, 84, 86>>
      [] s = "Tablet"  -> <<84, 97, 98, 108, 101, 116>>
      [] s = "nan"     -> <<110, 97, 110>>
      [] s = "Logistic Regression" ->
            <<76, 111, 103, 105, 115, 116, 105, 99, 32,
              82, 101, 103, 114, 101, 115, 115, 105, 111, 110>>
      [] s = "logistic_regression" ->
            <<108, 111, 103, 105, 115, 116, 105, 99, 95,
              114, 101, 103, 114, 101, 115, 115, 105, 111, 110>>
      [] s = "Random Forest" ->
            <<82, 97, 110, 100, 111, 109, 32, 70, 111, 114, 101, 115, 116>>
      [] s = "random_forest" ->
            <<114, 97, 110, 100, 111, 109, 95, 102, 111, 114, 101, 115, 116>>
      [] s = "XGBoost" -> <<88, 71, 66, 111, 111, 115, 116>>
      [] s = "xgboost" -> <<120, 103, 98, 111, 111, 115, 116>>

\* the strings a directory of the store or a display name can be
Names ==
    {"Logistic Regression", "logistic_regression", "Random Forest",
     "random_forest", "XGBoost", "xgboost"}

\* the str with the given code points
FromCodePoints(cp) == CHOOSE s \in Names : CodePoints(s) = cp

\* str.lower(): the upper-case letters A..Z move to a..z
Lower(cp) == [i \in DOMAIN cp |-> IF cp[i] \in 65..90 THEN cp[i] + 32 ELSE cp[i]]

\* str.replace(' ', '_')
ReplaceSpace(cp) == [i \in DOMAIN cp |-> IF cp[i] = 32 THEN 95 ELSE cp[i]]

RECURSIVE SeqLess(_, _)
SeqLess(a, b) ==
    IF b = <<>> THEN FALSE
    ELSE IF a = <<>> THEN TRUE
    ELSE IF Head(a) # Head(b) THEN Head(a) < Head(b)
    ELSE SeqLess(Tail(a), Tail(b))

\* s < t on Python str
StrLess(s, t) == SeqLess(CodePoints(s), CodePoints(t))

\* str(x) as Series.astype(str) applies it to a cell
\* (a categorical cell of the model is a str or missing: str(nan) = 'nan')
AsTypeStr(c) == IF IsStr(c) THEN c.s ELSE "nan"

(***************************************************************************)
(* Sequence helpers.                                                       *)
(***************************************************************************)
\* F applied to the value of v, with v evaluated once
Let(v, F(_)) == CHOOSE y \in {F(x) : x \in {v}} : TRUE

Range(s) == {s[i] : i \in DOMAIN s}

\* [x for x in s if x in keep]
SelectIn(s, keep) == SelectSeq(s, LAMBDA x : x \in keep)

\* the sorted sequence of a finite set of strings (np.unique)
SortedStrings(S) ==
    [k \in 1..Cardinality(S) |->
       CHOOSE x \in S : Cardinality({y \in S : StrLess(y, x)}) = k - 1]

\* the sorted sequence of the integers of a sequence
SortedInts(s) ==
    LET rank(i) == Cardinality({j \in DOMAIN s :
                                  s[j] < s[i] \/ (s[j] = s[i] /\ j < i)}) + 1
    IN [k \in 1..Len(s) |-> s[CHOOSE i \in DOMAIN s : rank(i) = k]]

\* the members of a finite set of integers in ascending order
Ascending(T) ==
    [k \in 1..Cardinality(T) |->
       CHOOSE x \in T : Cardinality({y \in T : y < x}) = k - 1]

(***************************************************************************)
(* pandas / sklearn primitives.                                            *)
(***************************************************************************)
Column(df, col) == [i \in DOMAIN df.rows |-> df.rows[i][col]]

\* Series.dtype: object as soon as one cell is a str, else float64
Dtype(df, col) ==
    IF \E i \in DOMAIN df.rows : IsStr(df.rows[i][col]) THEN "object" ELSE "float64"

\* Series.median(): the median of the non-missing values, NaN when there is
\* none.  Numeric inputs of the model are even, so the mean of the two
\* middle values is an integer.
Median(cells) ==
    LET present == SelectSeq(cells, LAMBDA c : IsNum(c))
        vals == SortedInts([i \in DOMAIN present |-> present[i].v])
        n == Len(vals)
    IN IF n = 0 THEN NaN
       ELSE IF n % 2 = 1 THEN Num(vals[(n + 1) \div 2])
       ELSE Num((vals[n \div 2] + vals[n \div 2 + 1]) \div 2)

\* Series.fillna(value): missing cells become value (fillna(NaN) changes nothing)
FillNa(c, value) == IF IsNaN(c) THEN value ELSE c

\* the per-column missing-value loop shared by prepare_features and
\* preprocess_input: 'MISSING' for object columns, the column's own median
\* for the others
ImputedCell(df, col, i) ==
    IF Dtype(df, col) = "object"
    THEN FillNa(df.rows[i][col], Str("MISSING"))
    ELSE FillNa(df.rows[i][col], Median(Column(df, col)))

Impute(df) ==
    [cols |-> df.cols,
     rows |-> [i \in DOMAIN df.rows |->
                 [col \in Range(df.cols) |-> ImputedCell(df, col, i)]]]

\* LabelEncoder.fit: classes_ = np.unique(values), sorted
LabelEncoderFit(strings) == SortedStrings(Range(strings))

\* LabelEncoder.transform of one label: its 0-based position in classes_;
\* "raise" stands for the ValueError on a label that is not in classes_
LabelEncoderTransform(classes, s) ==
    IF \E j \in DOMAIN classes : classes[j] = s
    THEN Num((CHOOSE j \in DOMAIN classes : classes[j] = s) - 1)
    ELSE [k |-> "raise"]


(***************************************************************************)
(* data_prep.py: declared columns.  The model keeps three of the 43        *)
(* declared features (two numeric, one categorical), in declared order.    *)
(***************************************************************************)
FEATURE_COLUMNS == <<"tenure_days", "monthly_charges", "device_type">>

CATEGORICAL_COLUMNS == <<"device_type">>

TARGET_COLUMN == "churn_flag"

(***************************************************************************)
(* data_prep.py: prepare_features, create_train_test_split, scale_features *)
(***************************************************************************)
\* df[cols]: the table restricted to the columns cols, in that order
SelectColumns(df, cols) ==
    [cols |-> cols,
     rows |-> [i \in DOMAIN df.rows |-> [c \in Range(cols) |-> df.rows[i][c]]]]

\* lines 163-169: every declared categorical column that is present gets
\* its own LabelEncoder, fit on the column's values as str
FitEncoders(X_raw) ==
    [c \in Range(SelectIn(CATEGORICAL_COLUMNS, Range(X_raw.cols))) |->
       LabelEncoderFit([i \in DOMAIN X_raw.rows |-> AsTypeStr(X_raw.rows[i][c])])]

EncodeFrame(X_raw, encoders) ==
    [cols |-> X_raw.cols,
     rows |-> [i \in DOMAIN X_raw.rows |->
                 [c \in Range(X_raw.cols) |->
                    IF c \in DOMAIN encoders
                    THEN LabelEncoderTransform(encoders[c], AsTypeStr(X_raw.rows[i][c]))
                    ELSE X_raw.rows[i][c]]]]

\* prepare_features selecting the declared columns in the order the input
\* table has them
prepare_features_InputOrder(df) ==
    IF TARGET_COLUMN \notin Range(df.cols)
    THEN [raised |-> TRUE]
    ELSE
      Let(SelectColumns(df, SelectIn(df.cols, Range(FEATURE_COLUMNS))), LAMBDA selected :
      Let(Impute(selected), LAMBDA X_raw :
      Let(FitEncoders(X_raw), LAMBDA encoders :
          [raised |-> FALSE,
           X |-> EncodeFrame(X_raw, encoders),
           y |-> [i \in DOMAIN df.rows |-> df.rows[i][TARGET_COLUMN].v],
           feature_names |-> X_raw.cols,
           encoders |-> encoders,
           medians |-> [c \in Range(X_raw.cols) \ DOMAIN encoders |->
                          Median(Column(selected, c))]])))

\* prepare_features(df): (X, y, feature_names, encoders), or raised when the
\* target column is absent.  medians records the value line 158 imputes.
prepare_features(df) ==
    IF TARGET_COLUMN \notin Range(df.cols)
    THEN [raised |-> TRUE]
    ELSE
      Let(SelectColumns(df, SelectIn(FEATURE_COLUMNS, Range(df.cols))), LAMBDA selected :
      Let(Impute(selected), LAMBDA X_raw :
      Let(FitEncoders(X_raw), LAMBDA encoders :
          [raised |-> FALSE,
           X |-> EncodeFrame(X_raw, encoders),
           y |-> [i \in DOMAIN df.rows |-> df.rows[i][TARGET_COLUMN].v],
           feature_names |-> X_raw.cols,
           encoders |-> encoders,
           medians |-> [c \in Range(X_raw.cols) \ DOMAIN encoders |->
                          Median(Column(selected, c))]])))

\* ceil(a / b) and floor(a / b) for naturals
CeilDiv(a, b) == (a + b - 1) \div b
FloorDiv(a, b) == a \div b

\* train_test_split(test_size=0.2, stratify=y): the sets of row numbers the
\* training split can get.  n_test = ceil(0.2 n); every class keeps its
\* share of the training rows up to rounding.  The seeded shuffle picks one
\* of them; a class with one member, or fewer test or training rows than
\* classes, is a ValueError (the empty set here).
TrainSplits(y) ==
    LET n == Len(y)
        n_test == CeilDiv(2 * n, 10)
        n_train == n - n_test
        classes == Range(y)
        count(c) == Cardinality({i \in DOMAIN y : y[i] = c})
    IN IF \/ \E c \in classes : count(c) < 2
          \/ n_train < Cardinality(classes)
          \/ n_test < Cardinality(classes)
       THEN {}
       ELSE {T \in SUBSET (DOMAIN y) :
               /\ Cardinality(T) = n_train
               /\ \A c \in classes :
                    LET k == Cardinality({i \in T : y[i] = c})
                    IN /\ FloorDiv(n_train * count(c), n) <= k
                       /\ k <= CeilDiv(n_train * count(c), n)}

\* the rows of X whose numbers are in T, in order
TakeRows(X, T) ==
    LET idx == Ascending(T)
    IN [cols |-> X.cols, rows |-> [j \in DOMAIN idx |-> X.rows[idx[j]]]]

RECURSIVE SumSeq(_)
SumSeq(s) == IF s = <<>> THEN 0 ELSE Head(s) + SumSeq(Tail(s))

\* StandardScaler().fit(X_train): per column the count, sum and sum of
\* squares of the non-missing values, which determine mean_ and var_
StandardScalerFit(X_train) ==
    [c \in Range(X_train.cols) |->
       LET present == SelectSeq(Column(X_train, c), LAMBDA x : IsNum(x))
           vals == [i \in DOMAIN present |-> present[i].v]
       IN [n |-> Len(vals),
           sum |-> SumSeq(vals),
           sumsq |-> SumSeq([i \in DOMAIN vals |-> vals[i] * vals[i]])]]

\* scaler.transform of one cell: (x - mean_) / scale_, kept exact as the
\* pair num / sqrt(den2); scale_ is 1 for a constant column
ScaleCell(st, x) ==
    IF ~IsNum(x) \/ st.n = 0 THEN NaN
    ELSE LET d == st.n * st.sumsq - st.sum * st.sum
         IN [k |-> "z", num |-> st.n * x.v - st.sum,
             den2 |-> IF d = 0 THEN st.n * st.n ELSE d]

StandardScalerTransform(scaler, X) ==
    [cols |-> X.cols,
     rows |-> [i \in DOMAIN X.rows |->
                 [c \in Range(X.cols) |-> ScaleCell(scaler[c], X.rows[i][c])]]]

\* X_train followed by X_test
ConcatRows(X_train, X_test) == [cols |-> X_train.cols, rows |-> X_train.rows \o X_test.rows]

scale_features_FitOnBoth(X_train, X_test) ==
    Let(StandardScalerFit(ConcatRows(X_train, X_test)), LAMBDA scaler :
        [scaler |-> scaler,
         X_train_scaled |-> StandardScalerTransform(scaler, X_train),
         X_test_scaled |-> StandardScalerTransform(scaler, X_test)])

\* scale_features(X_train, X_test): fit_transform on X_train, transform on
\* X_test
scale_features(X_train, X_test) ==
    Let(StandardScalerFit(X_train), LAMBDA scaler :
        [scaler |-> scaler,
         X_train_scaled |-> StandardScalerTransform(scaler, X_train),
         X_test_scaled |-> StandardScalerTransform(scaler, X_test)])


(***************************************************************************)
(* predict.py: risk tiers, preprocess_input, predict_churn,                *)
(* predict_single_customer, explain_prediction_shap.  A probability is the *)
(* integer p standing for p / ProbDen.                                     *)
(***************************************************************************)
RiskCategory_Strict(p) ==
    IF 10 * p > 7 * ProbDen THEN "High Risk"
    ELSE IF 10 * p > 5 * ProbDen THEN "Medium Risk"
    ELSE IF 10 * p > 3 * ProbDen THEN "Low Risk"
    ELSE "Very Low Risk"

RiskCategory_Swapped(p) ==
    IF 10 * p >= 7 * ProbDen THEN "High Risk"
    ELSE IF 10 * p >= 5 * ProbDen THEN "Low Risk"
    ELSE IF 10 * p >= 3 * ProbDen THEN "Medium Risk"
    ELSE "Very Low Risk"

\* predict_single_customer, lines 198-205
RiskCategory(p) ==
    IF 10 * p >= 7 * ProbDen THEN "High Risk"
    ELSE IF 10 * p >= 5 * ProbDen THEN "Medium Risk"
    ELSE IF 10 * p >= 3 * ProbDen THEN "Low Risk"
    ELSE "Very Low Risk"

\* pd.cut(probabilities, bins=[0, 0.3, 0.5, 0.7, 1.0], labels=[...]) of
\* example_usage.py: the bins are open on the left and closed on the right,
\* and a value in no bin is NaN
PdCutRiskCategory(p) ==
    IF 0 < p /\ 10 * p <= 3 * ProbDen THEN Str("Very Low Risk")
    ELSE IF 3 * ProbDen < 10 * p /\ 10 * p <= 5 * ProbDen THEN Str("Low Risk")
    ELSE IF 5 * ProbDen < 10 * p /\ 10 * p <= 7 * ProbDen THEN Str("Medium Risk")
    ELSE IF 7 * ProbDen < 10 * p /\ p <= ProbDen THEN Str("High Risk")
    ELSE NaN

FallbackLabel_Last(classes, s) ==
    IF s \in Range(classes) THEN s ELSE classes[Len(classes)]

\* lines 126-128: a label outside classes_ becomes classes_[0]
FallbackLabel(classes, s) == IF s \in Range(classes) THEN s ELSE classes[1]

\* lines 122-129 for one cell of an encoded column
EncodeCell(classes, c) ==
    LabelEncoderTransform(classes, FallbackLabel(classes, AsTypeStr(c)))

EncodersAfterTransform_Refit(encoders, df) ==
    [c \in DOMAIN encoders |->
       IF c \in Range(df.cols)
       THEN SortedStrings(Range(encoders[c]) \cup
                          {AsTypeStr(ImputedCell(df, c, i)) : i \in DOMAIN df.rows})
       ELSE encoders[c]]

\* encoder.transform and scaler.transform read the fitted state and leave
\* it as it was
EncodersAfterTransform(encoders, df) == encoders
ScalerAfterTransform(scaler, X) == scaler

preprocess_input_DropMissing(df, encoders, feature_names) ==
    Let(SelectIn(feature_names, Range(df.cols)), LAMBDA available_features :
        [raised |-> FALSE,
         X |-> [cols |-> available_features,
                rows |-> [i \in DOMAIN df.rows |->
                            [c \in Range(available_features) |->
                               IF c \in DOMAIN encoders
                               THEN EncodeCell(encoders[c], ImputedCell(df, c, i))
                               ELSE ImputedCell(df, c, i)]]]])

\* preprocess_input(df, encoders, feature_names): the feature matrix, or
\* raised when a call in it raises
preprocess_input(df, encoders, feature_names) ==
    Let([cols |-> feature_names,
         rows |-> [i \in DOMAIN df.rows |->
                     [c \in Range(feature_names) |->
                        IF c \notin Range(df.cols) THEN Num(0)
                        ELSE IF c \in DOMAIN encoders
                        THEN EncodeCell(encoders[c], ImputedCell(df, c, i))
                        ELSE ImputedCell(df, c, i)]]],
        LAMBDA X :
          [raised |-> \E i \in DOMAIN X.rows : \E c \in Range(X.cols) :
                         X.rows[i][c].k = "raise",
           X |-> X])

HasNaN(X) == \E i \in DOMAIN X.rows : \E c \in Range(X.cols) : IsNaN(X.rows[i][c])

\* the fitted estimator is a library object: it scores a matrix row by row
\* and deterministically.  The model takes one such function, which reads
\* every feature; a missing cell counts as 1.
RECURSIVE RowScore(_, _)
RowScore(cols, row) ==
    IF cols = <<>> THEN 0
    ELSE LET c == row[Head(cols)]
             v == IF IsNaN(c) THEN 1
                  ELSE IF IsNum(c) THEN c.v
                  ELSE IF c.num < 0 THEN 0 - c.num ELSE c.num
         IN Len(cols) * v + RowScore(Tail(cols), row)

RowProba(model, cols, row) == (model.intercept + RowScore(cols, row)) % (ProbDen + 1)

PredictProba(model, X) == [i \in DOMAIN X.rows |-> RowProba(model, X.cols, X.rows[i])]

\* model.predict: class 1 when its probability is the larger one
Predict(model, X) ==
    [i \in DOMAIN X.rows |-> IF 2 * RowProba(model, X.cols, X.rows[i]) > ProbDen THEN 1 ELSE 0]

\* the linear family rejects a matrix with a missing cell (ValueError); the
\* boosted trees route it down a default branch
ModelRaises(model, X) == model.family = "logistic_regression" /\ HasNaN(X)

(***************************************************************************)
(* The artifact directory (ARTIFACTS_DIR).  A path is <<directory, file>>. *)
(***************************************************************************)
Families == {"logistic_regression", "random_forest", "xgboost"}

Absent == [k |-> "absent"]
File(data) == [k |-> "file", data |-> data]

BundlePaths == {<<"", "encoders.pkl">>, <<"", "scaler.pkl">>, <<"", "feature_names.pkl">>}

Paths ==
    BundlePaths
    \cup {<<"", "model_comparison.csv">>, <<"", "best_model_name.txt">>}
    \cup (Families \X {"model.pkl", "metrics.json", "feature_importance.csv",
                       "shap_values.pkl", "classification_report.json"})

EmptyStore == [p \in Paths |-> Absent]

Exists(st, path) == st[path].k = "file"

\* model_name.lower().replace(' ', '_'): the directory training saves a
\* family under
StoreKey(display) == FromCodePoints(ReplaceSpace(Lower(CodePoints(display))))

\* a table whose entry for 'Random Forest' is another family's directory
model_name_map_WrongEntry ==
    [n \in {"Logistic Regression", "Random Forest", "XGBoost"} |->
        CASE n = "Logistic Regression" -> "logistic_regression"
          [] n = "Random Forest" -> "xgboost"
          [] n = "XGBoost" -> "xgboost"]

\* the dict literal of load_best_model
model_name_map ==
    [n \in {"Logistic Regression", "Random Forest", "XGBoost"} |->
        CASE n = "Logistic Regression" -> "logistic_regression"
          [] n = "Random Forest" -> "random_forest"
          [] n = "XGBoost" -> "xgboost"]

DisplayName(family) ==
    CASE family = "logistic_regression" -> "Logistic Regression"
      [] family = "random_forest" -> "Random Forest"
      [] family = "xgboost" -> "XGBoost"

load_model_Silent(st, model_name) ==
    IF ~Exists(st, <<model_name, "model.pkl">>)
    THEN [raised |-> FALSE, model |-> None]
    ELSE [raised |-> FALSE, model |-> st[<<model_name, "model.pkl">>].data]

\* load_model(model_name): the unpickled model, or FileNotFoundError
load_model(st, model_name) ==
    IF ~Exists(st, <<model_name, "model.pkl">>)
    THEN [raised |-> TRUE]
    ELSE [raised |-> FALSE, model |-> st[<<model_name, "model.pkl">>].data]

\* the value a read of the store returned
Value(v) == [raised |-> FALSE, value |-> v]

\* a metrics read that treats an absent file like load_model does
load_model_metrics_Raises(st, model_name) ==
    IF ~Exists(st, <<model_name, "metrics.json">>)
    THEN [raised |-> TRUE]
    ELSE Value(Some(st[<<model_name, "metrics.json">>].data))

\* load_model_metrics(model_name): the metrics dict, or None
load_model_metrics(st, model_name) ==
    IF ~Exists(st, <<model_name, "metrics.json">>)
    THEN Value(None)
    ELSE Value(Some(st[<<model_name, "metrics.json">>].data))

\* load_feature_importance(model_name): the table, or None
load_feature_importance(st, model_name) ==
    IF ~Exists(st, <<model_name, "feature_importance.csv">>)
    THEN Value(None)
    ELSE Value(Some(st[<<model_name, "feature_importance.csv">>].data))

\* load_shap_values(model_name): (shap_values, explainer), or (None, None)
load_shap_values(st, model_name) ==
    IF ~Exists(st, <<model_name, "shap_values.pkl">>)
    THEN Value(<<None, None>>)
    ELSE Value(<<Some(st[<<model_name, "shap_values.pkl">>].data),
                 Some(st[<<model_name, "shap_values.pkl">>].data)>>)

\* get_model_comparison(): the comparison table, or None
get_model_comparison(st) ==
    IF ~Exists(st, <<"", "model_comparison.csv">>)
    THEN Value(None)
    ELSE Value(Some(st[<<"", "model_comparison.csv">>].data))

load_best_model_AlwaysFallback(st) == load_model(st, "xgboost")

\* load_best_model(): the pointer's family, 'xgboost' without a pointer or
\* for a name that is none of the three display names
load_best_model(st) ==
    IF ~Exists(st, <<"", "best_model_name.txt">>)
    THEN load_model(st, "xgboost")
    ELSE LET best_model_name == st[<<"", "best_model_name.txt">>].data
         IN IF best_model_name \in DOMAIN model_name_map
            THEN load_model(st, model_name_map[best_model_name])
            ELSE load_model(st, "xgboost")

\* load_preprocessors(): open() raises when a file is not there
load_preprocessors(st) ==
    IF \E path \in BundlePaths : ~Exists(st, path)
    THEN [raised |-> TRUE]
    ELSE [raised |-> FALSE,
          encoders |-> st[<<"", "encoders.pkl">>].data,
          scaler |-> st[<<"", "scaler.pkl">>].data,
          feature_names |-> st[<<"", "feature_names.pkl">>].data]

\* save_preprocessors(encoders, scaler, feature_names)
save_preprocessors(st, b) ==
    [st EXCEPT ![<<"", "encoders.pkl">>] = File(b.encoders),
               ![<<"", "scaler.pkl">>] = File(b.scaler),
               ![<<"", "feature_names.pkl">>] = File(b.feature_names)]


(***************************************************************************)
(* predict.py: predict_churn, predict_single_customer,                     *)
(* explain_prediction_shap.  Each returns a record; raised tells that the  *)
(* call ended in an exception.  after is the state in which the call left  *)
(* the preprocessing objects it used, X the matrix preprocess_input made   *)
(* in the call, error the step that raised.                                *)
(***************************************************************************)
Raised == [raised |-> TRUE, error |-> "load"]

\* lines 165-174: scaling and the estimator's two calls on the matrix of
\* preprocess_input
ScoreMatrix(pre, model, scaler, after) ==
    Let(IF scaler # None THEN StandardScalerTransform(scaler.v, pre.X) ELSE pre.X,
        LAMBDA X_scaled :
          IF pre.raised \/ ModelRaises(model, X_scaled)
          THEN [raised |-> TRUE, after |-> after, X |-> pre.X,
                error |-> IF pre.raised THEN "preprocess_input" ELSE "model"]
          ELSE [raised |-> FALSE, after |-> after,
                X |-> pre.X,
                predictions |-> Predict(model, X_scaled),
                probabilities |-> PredictProba(model, X_scaled)])

\* lines 163-174, with the model and the preprocessing objects resolved
Score(df, model, encoders, scaler, feature_names) ==
    Let(preprocess_input(df, encoders, feature_names),
        LAMBDA pre :
          ScoreMatrix(pre, model, scaler,
                      [encoders |-> EncodersAfterTransform(encoders, df),
                       scaler |-> IF scaler # None
                                  THEN Some(ScalerAfterTransform(scaler.v, pre.X))
                                  ELSE None,
                       feature_names |-> feature_names]))

\* a predict_churn that loads from the store only the objects the caller
\* left out
predict_churn_KeepSupplied(st, df, model, encoders, scaler, feature_names) ==
    Let(IF model = None THEN load_best_model(st)
        ELSE [raised |-> FALSE, model |-> model.v],
        LAMBDA loaded_model :
    Let(IF encoders = None \/ scaler = None \/ feature_names = None
        THEN Let(load_preprocessors(st), LAMBDA b :
               IF b.raised THEN b
               ELSE [raised |-> FALSE,
                     encoders |-> IF encoders = None THEN b.encoders ELSE encoders.v,
                     scaler |-> IF scaler = None THEN b.scaler ELSE scaler,
                     feature_names |-> IF feature_names = None THEN b.feature_names
                                       ELSE feature_names.v])
        ELSE [raised |-> FALSE, encoders |-> encoders.v,
              scaler |-> scaler, feature_names |-> feature_names.v],
        LAMBDA loaded :
          IF loaded_model.raised \/ loaded.raised
          THEN Raised
          ELSE Score(df, loaded_model.model, loaded.encoders, loaded.scaler,
                     loaded.feature_names)))

\* predict_churn(df, model=None, encoders=None, scaler=None, feature_names=None);
\* the scaler of a bundle is None when the features were not scaled
predict_churn(st, df, model, encoders, scaler, feature_names) ==
    Let(IF model = None THEN load_best_model(st)
        ELSE [raised |-> FALSE, model |-> model.v],
        LAMBDA loaded_model :
    Let(IF encoders = None \/ scaler = None \/ feature_names = None
        THEN load_preprocessors(st)
        ELSE [raised |-> FALSE, encoders |-> encoders.v,
              scaler |-> scaler, feature_names |-> feature_names.v],
        LAMBDA loaded :
          IF loaded_model.raised \/ loaded.raised
          THEN Raised
          ELSE Score(df, loaded_model.model, loaded.encoders, loaded.scaler,
                     loaded.feature_names)))

\* pd.DataFrame([customer_data])
OneRowFrame(cols, record) == [cols |-> cols, rows |-> <<record>>]

\* predict_single_customer(customer_data, model=None)
predict_single_customer(st, df, model) ==
    Let(predict_churn(st, df, model, None, None, None),
        LAMBDA r :
          IF r.raised THEN r
          ELSE [raised |-> FALSE, after |-> r.after, X |-> r.X,
                prediction |-> r.predictions[1],
                churn_probability |-> r.probabilities[1],
                risk_category |-> RiskCategory(r.probabilities[1])])

\* explain_prediction_shap(customer_data, model_name): the tree families
\* return one contribution per feature name, the linear family none
explain_prediction_shap(st, df, model_name) ==
    Let(load_model(st, model_name), LAMBDA m :
    Let(load_preprocessors(st), LAMBDA b :
        IF m.raised \/ b.raised THEN Raised
        ELSE Let(Score(df, m.model, b.encoders, b.scaler, b.feature_names),
                 LAMBDA r :
                   IF r.raised THEN r
                   ELSE [raised |-> FALSE, after |-> r.after, X |-> r.X,
                         shap_features |->
                             IF model_name \in {"xgboost", "random_forest"}
                             THEN Range(b.feature_names) ELSE {},
                         prediction |-> r.probabilities[1]])))

(***************************************************************************)
(* Inputs of the inference model: two training tables of ten rows each     *)
(* (the smallest table a stratified 80/20 split of two classes accepts)    *)
(* and the inference batches of at most MaxRows rows.                      *)
(***************************************************************************)
TrainRow(t, m, d, y) ==
    [customer_id |-> Num(6), tenure_days |-> t, monthly_charges |-> m,
     device_type |-> d, churn_flag |-> Num(y)]

\* every declared column; tenure_days and monthly_charges have a missing value
TableFull ==
    [cols |-> <<"customer_id", "tenure_days", "monthly_charges", "device_type",
                "churn_flag">>,
     rows |-> << TrainRow(Num(2), Num(2), Str("Desktop"), 0),
                 TrainRow(Num(2), Num(2), Str("Desktop"), 0),
                 TrainRow(Num(2), Num(2), Str("Desktop"), 0),
                 TrainRow(NaN, Num(2), Str("Mobile"), 0),
                 TrainRow(Num(8), NaN, Str("Tablet"), 0),
                 TrainRow(Num(4), Num(6), Str("Mobile"), 1),
                 TrainRow(Num(4), Num(6), Str("Mobile"), 1),
                 TrainRow(Num(4), Num(6), Str("Mobile"), 1),
                 TrainRow(Num(4), Num(6), Str("Mobile"), 1),
                 TrainRow(Num(4), Num(6), Str("Mobile"), 1) >>]

\* monthly_charges is not in the export; device_type has a missing value
TableNarrow ==
    SelectColumns(
        [cols |-> <<>>,
         rows |-> << TrainRow(Num(0), NaN, Str("Mobile"), 0),
                     TrainRow(Num(0), NaN, Str("Mobile"), 0),
                     TrainRow(Num(0), NaN, Str("Mobile"), 0),
                     TrainRow(Num(0), NaN, Str("Mobile"), 0),
                     TrainRow(Num(4), NaN, NaN, 0),
                     TrainRow(Num(8), NaN, Str("Tablet"), 1),
                     TrainRow(Num(8), NaN, Str("Tablet"), 1),
                     TrainRow(Num(8), NaN, Str("Tablet"), 1),
                     TrainRow(Num(8), NaN, Str("Tablet"), 1),
                     TrainRow(Num(8), NaN, Str("Tablet"), 1) >>],
        <<"customer_id", "tenure_days", "device_type", "churn_flag">>)

TrainTables == {TableFull, TableNarrow}

\* the columns an inference input can have, and the values of each
InputColumns == <<"customer_id", "tenure_days", "monthly_charges", "device_type">>

CellDomain(col) ==
    CASE col = "customer_id" -> {Num(6)}
      [] col = "tenure_days" -> {Num(0), Num(4), NaN}
      [] col = "monthly_charges" -> {Num(2), NaN}
      [] col = "device_type" -> {Str("Mobile"), Str("SmartTV"), NaN}

InputColumnLists == {SelectIn(InputColumns, S) : S \in (SUBSET Range(InputColumns)) \ {{}}}

Records(cols) == {r \in [Range(cols) -> UNION {CellDomain(c) : c \in Range(cols)}] :
                    \A c \in Range(cols) : r[c] \in CellDomain(c)}

Batches == UNION {UNION {{[cols |-> cols, rows |-> rows] :
                            rows \in [1..n -> Records(cols)]} : n \in 1..MaxRows} :
                    cols \in InputColumnLists}


(***************************************************************************)
(* The inference model: a bundle and an estimator fitted on one of the     *)
(* training tables, then any sequence of calls of the inference API.       *)
(***************************************************************************)
vars == <<store, held_bundle, held_model, fit_median, pc, call, tiered,
          runs, trainer, loader, ended, tie_rank, prepared>>

inferVars == <<held_bundle, held_model, fit_median, pc, call>>
riskVars == <<tiered>>
lifeVars == <<runs, trainer, loader, ended, tie_rank>>
prepVars == <<prepared>>

\* the variables of the parts of the system a specification leaves out
NoInference ==
    /\ held_bundle = None
    /\ held_model = None
    /\ fit_median = None
    /\ pc = "idle"
    /\ call = [op |-> "none"]

NoTiering == tiered = <<>>

IdleTrainer == [pc |-> "idle"]
IdleLoader == [pc |-> "idle"]

\* a sort that keeps rows with equal keys in the order they had
InsertionOrder == <<1, 2, 3>>

NoTraining ==
    /\ runs = 0
    /\ trainer = IdleTrainer
    /\ loader = IdleLoader
    /\ ended = <<>>
    /\ prepared = [pc |-> "idle"]

NoCall == [op |-> "none"]

\* families whose behaviour on a missing cell does not depend on the
\* installed library version
InferFamilies == {"logistic_regression", "xgboost"}

InitInfer ==
    \E table \in TrainTables, family \in InferFamilies :
    \E prep \in {prepare_features(table)} :
    \E T \in TrainSplits(prep.y) :
    \E b \in {[encoders |-> prep.encoders,
               scaler |-> Some(scale_features(TakeRows(prep.X, T),
                                              TakeRows(prep.X, DOMAIN prep.y \ T)).scaler),
               feature_names |-> prep.feature_names]} :
    \E m \in {[family |-> family,
               intercept |-> Cardinality({i \in T : prep.y[i] = 1})]} :
        /\ store = [save_preprocessors(EmptyStore, b) EXCEPT
                      ![<<family, "model.pkl">>] = File(m),
                      ![<<"", "best_model_name.txt">>] = File(DisplayName(family))]
        /\ held_bundle = b
        /\ held_model = m
        /\ fit_median = prep.medians
        /\ pc = "idle"
        /\ call = NoCall
        /\ NoTiering
        /\ NoTraining
        /\ tie_rank = InsertionOrder

\* the objects in memory after a call: those the call used, as it left them
BundleAfter(r) == IF "after" \in DOMAIN r THEN r.after ELSE held_bundle

\* predict_churn(df): model and bundle come from the store
PredictChurnFromStore ==
    /\ pc = "idle"
    /\ \E df \in Batches :
        \E r \in {predict_churn(store, df, None, None, None, None)} :
           /\ call' = [op |-> "predict_churn", df |-> df, r |-> r]
           /\ held_bundle' = BundleAfter(r)
    /\ pc' = "returned"
    /\ UNCHANGED <<store, held_model, fit_median, riskVars, lifeVars, prepVars>>

\* predict_churn(df, model, encoders, scaler, feature_names), as
\* example_6_batch_scoring calls it
PredictChurnExplicit ==
    /\ pc = "idle"
    /\ \E df \in Batches :
        \E r \in {predict_churn(store, df, Some(held_model),
                                 Some(held_bundle.encoders), held_bundle.scaler,
                                 Some(held_bundle.feature_names))} :
           /\ call' = [op |-> "predict_churn", df |-> df, r |-> r]
           /\ held_bundle' = BundleAfter(r)
    /\ pc' = "returned"
    /\ UNCHANGED <<store, held_model, fit_median, riskVars, lifeVars, prepVars>>

PredictSingleCustomer ==
    /\ pc = "idle"
    /\ \E cols \in InputColumnLists : \E customer_data \in Records(cols) :
       \E m \in {None, Some(held_model)} :
       \E df \in {OneRowFrame(cols, customer_data)} :
       \E r \in {predict_single_customer(store, df, m)} :
           /\ call' = [op |-> "predict_single_customer", df |-> df, r |-> r]
           /\ held_bundle' = BundleAfter(r)
    /\ pc' = "returned"
    /\ UNCHANGED <<store, held_model, fit_median, riskVars, lifeVars, prepVars>>

ExplainPredictionShap ==
    /\ pc = "idle"
    /\ \E cols \in InputColumnLists : \E customer_data \in Records(cols) :
       \E model_name \in Families :
       \E df \in {OneRowFrame(cols, customer_data)} :
       \E r \in {explain_prediction_shap(store, df, model_name)} :
           /\ call' = [op |-> "explain_prediction_shap", df |-> df, r |-> r]
           /\ held_bundle' = BundleAfter(r)
    /\ pc' = "returned"
    /\ UNCHANGED <<store, held_model, fit_median, riskVars, lifeVars, prepVars>>

\* the caller is done with the result
Return ==
    /\ pc = "returned"
    /\ pc' = "idle"
    /\ call' = NoCall
    /\ UNCHANGED <<store, held_bundle, held_model, fit_median, riskVars, lifeVars, prepVars>>

NextInfer ==
    \/ PredictChurnFromStore
    \/ PredictChurnExplicit
    \/ PredictSingleCustomer
    \/ ExplainPredictionShap
    \/ Return

SpecInfer == InitInfer /\ [][NextInfer]_vars

(***************************************************************************)
(* The caller of predict_churn holds preprocessing objects of its own: a   *)
(* bundle fitted on another table than the bundle in the store, with or    *)
(* without a scaler.  It passes any of the three objects.                  *)
(***************************************************************************)
\* the bundle prepare_data_pipeline fits on a table, T the training rows
FitBundle(table, T, scaled) ==
    Let(prepare_features(table), LAMBDA prep :
        [encoders |-> prep.encoders,
         scaler |-> IF scaled
                    THEN Some(scale_features(TakeRows(prep.X, T),
                                             TakeRows(prep.X, DOMAIN prep.y \ T)).scaler)
                    ELSE None,
         feature_names |-> prep.feature_names])

InitArgs ==
    \E stored \in TrainTables, family \in InferFamilies, scaled \in BOOLEAN :
    \E own \in TrainTables \ {stored} :
    \E T \in {CHOOSE S \in TrainSplits(prepare_features(stored).y) : TRUE} :
    \E b \in {FitBundle(stored, T, TRUE)} :
    \E m \in {[family |-> family, intercept |-> Cardinality(T)]} :
        /\ store = [save_preprocessors(EmptyStore, b) EXCEPT
                      ![<<family, "model.pkl">>] = File(m),
                      ![<<"", "best_model_name.txt">>] = File(DisplayName(family))]
        /\ held_bundle = FitBundle(own, T, scaled)
        /\ held_model = m
        /\ fit_median = prepare_features(stored).medians
        /\ pc = "idle"
        /\ call = NoCall
        /\ NoTiering
        /\ NoTraining
        /\ tie_rank = InsertionOrder

\* an argument the caller passes or leaves at its default None
Passed(passed, v) == IF passed THEN v ELSE None

\* predict_churn(df, model, encoders, scaler, feature_names) with any of the
\* three preprocessing arguments passed
PredictChurnWithArgs ==
    /\ pc = "idle"
    /\ \E cols \in InputColumnLists : \E customer_data \in Records(cols) :
       \E pe \in BOOLEAN, ps \in BOOLEAN, pf \in BOOLEAN :
       \E df \in {OneRowFrame(cols, customer_data)} :
       \E args \in {[encoders |-> Passed(pe, Some(held_bundle.encoders)),
                     scaler |-> Passed(ps, held_bundle.scaler),
                     feature_names |-> Passed(pf, Some(held_bundle.feature_names))]} :
       \E r \in {predict_churn(store, df, Some(held_model), args.encoders,
                                args.scaler, args.feature_names)} :
           call' = [op |-> "predict_churn", df |-> df, args |-> args, r |-> r]
    /\ pc' = "returned"
    /\ UNCHANGED <<store, held_bundle, held_model, fit_median, riskVars, lifeVars,
                   prepVars>>

\* predict_single_customer(customer_data, model): line 193 passes the model on
\* and nothing else
PredictSingleCustomerWithModel ==
    /\ pc = "idle"
    /\ \E cols \in InputColumnLists : \E customer_data \in Records(cols) :
       \E m \in {None, Some(held_model)} :
       \E df \in {OneRowFrame(cols, customer_data)} :
       \E r \in {predict_single_customer(store, df, m)} :
           call' = [op |-> "predict_single_customer", df |-> df, model |-> m, r |-> r]
    /\ pc' = "returned"
    /\ UNCHANGED <<store, held_bundle, held_model, fit_median, riskVars, lifeVars,
                   prepVars>>

NextArgs ==
    \/ PredictChurnWithArgs
    \/ PredictSingleCustomerWithModel
    \/ Return

SpecArgs == InitArgs /\ [][NextArgs]_vars


(***************************************************************************)
(* Properties of inference (SpecInfer).                                    *)
(***************************************************************************)
Returned == pc = "returned"

\* the call ran preprocess_input
Preprocessed == Returned /\ "X" \in DOMAIN call.r

\* the numeric features of the fitted bundle
NumericFeatures == DOMAIN fit_median

\* C1: every row of a batch gets the feature row, the probability and the
\* prediction that predict_single_customer gives the same record alone
C1_BatchEqualsSingle ==
    (Returned /\ call.op = "predict_churn" /\ ~call.r.raised) =>
        \A i \in DOMAIN call.df.rows :
            Let(predict_single_customer(store,
                                        OneRowFrame(call.df.cols, call.df.rows[i]),
                                        None),
                LAMBDA single :
                  /\ ~single.raised
                  /\ single.X.rows[1] = call.r.X.rows[i]
                  /\ single.churn_probability = call.r.probabilities[i]
                  /\ single.prediction = call.r.predictions[i])

\* C2: a missing numeric value is imputed with the median fixed at training
\* time
C2_ImputesTrainingMedian ==
    Preprocessed =>
        \A i \in DOMAIN call.df.rows :
            \A c \in NumericFeatures \cap Range(call.df.cols) :
                IsNaN(call.df.rows[i][c]) => call.r.X.rows[i][c] = fit_median[c]

\* C3: no call of the inference API changes the fitted encoders, scaler or
\* feature-name list, in memory or in the store
C3_InferenceKeepsBundle ==
    [][held_bundle' = held_bundle /\ store' = store]_vars

C3_Witness ==
    /\ Returned
    /\ call.op = "explain_prediction_shap"
    /\ ~call.r.raised
    /\ "monthly_charges" \notin Range(call.df.cols)
    /\ "device_type" \in Range(call.df.cols)
    /\ call.df.rows[1]["device_type"] = Str("SmartTV")
    /\ held_bundle.encoders = store[<<"", "encoders.pkl">>].data
    /\ held_bundle.scaler = store[<<"", "scaler.pkl">>].data


\* the lexicographically first of an encoder's known categories
FirstCategory(classes) ==
    CHOOSE s \in Range(classes) : \A t \in Range(classes) : ~StrLess(t, s)

\* C4: preprocess_input never raises on a category; it encodes a category
\* the encoder does not know like the encoder's lexicographically first
\* category and a known category to its own code
C4_UnseenCategoryFallback ==
    Preprocessed =>
        /\ call.r.raised => call.r.error # "preprocess_input"
        /\ \A c \in DOMAIN held_bundle.encoders \cap Range(call.df.cols) :
           \A i \in DOMAIN call.df.rows :
             LET v == call.df.rows[i][c]
                 classes == held_bundle.encoders[c]
             IN IsStr(v) =>
                  call.r.X.rows[i][c] =
                      IF v.s \in Range(classes)
                      THEN Num(Cardinality({t \in Range(classes) : StrLess(t, v.s)}))
                      ELSE LabelEncoderTransform(classes, FirstCategory(classes))

C4_Witness ==
    /\ Preprocessed
    /\ call.op = "predict_churn"
    /\ Len(call.df.rows) = 2
    /\ "device_type" \in Range(call.df.cols)
    /\ call.df.rows[1]["device_type"] = Str("SmartTV")
    /\ call.df.rows[2]["device_type"] = Str("Mobile")
    /\ held_bundle.encoders["device_type"] = <<"MISSING", "Mobile", "Tablet">>
    /\ call.r.X.rows[1]["device_type"] = Num(0)
    /\ call.r.X.rows[2]["device_type"] = Num(1)

\* C5: the matrix of preprocess_input has the bundle's feature names as its
\* columns, in the bundle's order and nothing else, one row per input row;
\* a feature the input lacks is 0 in every row, and its absence raises
\* nothing
C5_ExactFeatureColumns ==
    Preprocessed =>
        /\ call.r.raised => call.r.error # "preprocess_input"
        /\ call.r.X.cols = store[<<"", "feature_names.pkl">>].data
        /\ DOMAIN call.r.X.rows = DOMAIN call.df.rows
        /\ \A i \in DOMAIN call.r.X.rows :
             /\ DOMAIN call.r.X.rows[i] = Range(call.r.X.cols)
             /\ \A c \in Range(call.r.X.cols) \ Range(call.df.cols) :
                  call.r.X.rows[i][c] = Num(0)

C5_Witness ==
    /\ Preprocessed
    /\ ~call.r.raised
    /\ call.df.cols = <<"customer_id", "device_type">>
    /\ call.r.X.cols = <<"tenure_days", "monthly_charges", "device_type">>
    /\ call.r.X.rows[1]["tenure_days"] = Num(0)
    /\ call.r.X.rows[1]["monthly_charges"] = Num(0)

\* C21: explain_prediction_shap returns, for every model family, one
\* contribution for every feature of the bundle's feature-name list
C21_ContributionPerFeature ==
    (Returned /\ call.op = "explain_prediction_shap" /\ ~call.r.raised) =>
        call.r.shap_features = Range(held_bundle.feature_names)

\* C26: the matrix preprocess_input returns has no missing and no
\* non-numeric cell, whatever the batch
C26_NoMissingAfterPreprocess ==
    (Preprocessed /\ (call.r.raised => call.r.error # "preprocess_input")) =>
        \A i \in DOMAIN call.r.X.rows : \A c \in Range(call.r.X.cols) :
            IsNum(call.r.X.rows[i][c])


(***************************************************************************)
(* The tiering model (SpecRisk): each scoring path turns the probability   *)
(* predict_churn returned for a record into a risk tier.                   *)
(***************************************************************************)
Probabilities == 0..ProbDen

\* the last two entries of a sequence
LastTwo(s) == IF Len(s) <= 2 THEN s ELSE SubSeq(s, Len(s) - 1, Len(s))

InitRisk ==
    /\ store = EmptyStore
    /\ NoInference
    /\ NoTraining
    /\ tie_rank = InsertionOrder
    /\ tiered = <<>>

\* predict_single_customer, lines 195-211
TierSingleCustomer ==
    /\ \E p \in Probabilities :
        tiered' = LastTwo(Append(tiered,
                     [path |-> "predict_single_customer", p |-> p,
                      risk_category |-> Str(RiskCategory(p))]))
    /\ UNCHANGED <<store, inferVars, lifeVars, prepVars>>

\* example_4_make_predictions_from_csv, lines 107-113
TierPredictionsFromCsv ==
    /\ \E p \in Probabilities :
        tiered' = LastTwo(Append(tiered,
                     [path |-> "example_4_make_predictions_from_csv", p |-> p,
                      risk_category |-> PdCutRiskCategory(p)]))
    /\ UNCHANGED <<store, inferVars, lifeVars, prepVars>>

\* example_6_batch_scoring, lines 209-215
TierBatchScoring ==
    /\ \E p \in Probabilities :
        tiered' = LastTwo(Append(tiered,
                     [path |-> "example_6_batch_scoring", p |-> p,
                      risk_category |-> PdCutRiskCategory(p)]))
    /\ UNCHANGED <<store, inferVars, lifeVars, prepVars>>

NextRisk ==
    \/ TierSingleCustomer
    \/ TierPredictionsFromCsv
    \/ TierBatchScoring

SpecRisk == InitRisk /\ [][NextRisk]_vars

(***************************************************************************)
(* Properties of the risk tiers (SpecRisk).                                *)
(***************************************************************************)
TierLabels == {"Very Low Risk", "Low Risk", "Medium Risk", "High Risk"}

TierRank(label) ==
    CASE label = "Very Low Risk" -> 0
      [] label = "Low Risk" -> 1
      [] label = "Medium Risk" -> 2
      [] label = "High Risk" -> 3

SingleTiered(t) == t.path = "predict_single_customer"

\* C7: predict_single_customer returns High Risk iff p >= 0.70, Medium Risk
\* iff 0.50 <= p < 0.70, Low Risk iff 0.30 <= p < 0.50 and Very Low Risk iff
\* p < 0.30
C7_TierThresholds ==
    \A i \in DOMAIN tiered :
        SingleTiered(tiered[i]) =>
            LET p == tiered[i].p
                label == tiered[i].risk_category
            IN /\ label = Str("High Risk") <=> 10 * p >= 7 * ProbDen
               /\ label = Str("Medium Risk") <=>
                      (5 * ProbDen <= 10 * p /\ 10 * p < 7 * ProbDen)
               /\ label = Str("Low Risk") <=>
                      (3 * ProbDen <= 10 * p /\ 10 * p < 5 * ProbDen)
               /\ label = Str("Very Low Risk") <=> 10 * p < 3 * ProbDen

C7_Witness ==
    /\ Len(tiered) = 2
    /\ SingleTiered(tiered[1]) /\ SingleTiered(tiered[2])
    /\ 10 * tiered[1].p = 3 * ProbDen /\ tiered[1].risk_category = Str("Low Risk")
    /\ 10 * tiered[2].p = 7 * ProbDen /\ tiered[2].risk_category = Str("High Risk")

\* C8: of two probabilities tiered by predict_single_customer, the smaller
\* one never gets the higher tier
C8_TiersMonotone ==
    \A i, j \in DOMAIN tiered :
        (SingleTiered(tiered[i]) /\ SingleTiered(tiered[j]) /\ tiered[i].p < tiered[j].p)
            => TierRank(tiered[i].risk_category.s) <= TierRank(tiered[j].risk_category.s)

C8_Witness ==
    /\ Len(tiered) = 2
    /\ SingleTiered(tiered[1]) /\ SingleTiered(tiered[2])
    /\ tiered[2].p < tiered[1].p
    /\ tiered[2].risk_category = Str("Low Risk")
    /\ tiered[1].risk_category = Str("Medium Risk")

\* C9: the tier written to a batch-scored table is one of the four labels
\* and is the tier predict_single_customer returns for that probability
C9_BatchTierEqualsSingleTier ==
    \A i \in DOMAIN tiered :
        ~SingleTiered(tiered[i]) =>
            /\ IsStr(tiered[i].risk_category)
            /\ tiered[i].risk_category = Str(RiskCategory(tiered[i].p))


(***************************************************************************)
(* train_model.py: a training run (train_pipeline) and the loads of an     *)
(* inference call, over one artifact directory.  A fitted object (model,   *)
(* encoders, scaler, feature list) is kept as the run that fitted it; an   *)
(* input table is kept as what decides the run: whether it has the target  *)
(* column, whether its target has both classes, and the test and train     *)
(* ROC-AUC each family reaches on it.  The plots a run writes are left out *)
(* (nothing reads them back).                                              *)
(***************************************************************************)
\* the keys of the models dict, in insertion order
FamilyOrder == <<"Logistic Regression", "Random Forest", "XGBoost">>

AucValues == 1..MaxAuc

Perf(test, train) == [roc_auc |-> test, train_roc_auc |-> train]

Scores(lr, rf, xgb) ==
    [n \in Range(FamilyOrder) |->
        CASE n = "Logistic Regression" -> lr
          [] n = "Random Forest" -> rf
          [] n = "XGBoost" -> xgb]

\* how the cross-validation means of a table's families lie: like the test
\* ROC-AUC values, or in the opposite order
CvKinds == {"as_test", "reversed"}

TableCv(kind, perf, cv) == [kind |-> kind, perf |-> perf, cv |-> cv]

Table(kind, perf) == TableCv(kind, perf, "as_test")

NoTargetTable == Table("no_target", Scores(Perf(1, 1), Perf(1, 1), Perf(1, 1)))
SingleClassTable == Table("single_class", Scores(Perf(1, 1), Perf(1, 1), Perf(1, 1)))

\* every table: with both classes, the families' scores are any values
AllTables ==
    {NoTargetTable, SingleClassTable}
    \cup {TableCv("valid", perf, cv) :
            perf \in [Range(FamilyOrder) ->
                        [roc_auc : AucValues, train_roc_auc : AucValues]],
            cv \in CvKinds}

\* the tables of the runs that share a store: one family ahead, another
\* family ahead, two families level with different overfit gaps, and the two
\* tables that end a run early
TrainingTables ==
    {NoTargetTable, SingleClassTable,
     Table("valid", Scores(Perf(2, 2), Perf(1, 2), Perf(1, 1))),
     Table("valid", Scores(Perf(1, 1), Perf(1, 2), Perf(2, 2))),
     Table("valid", Scores(Perf(2, 2), Perf(2, 1), Perf(1, 1)))}

prepare_data_pipeline_NoCheck(table) == [raised |-> FALSE]

\* prepare_data_pipeline: ValueError without the target column
prepare_data_pipeline(table) ==
    IF table.kind = "no_target" THEN [raised |-> TRUE] ELSE [raised |-> FALSE]

\* LogisticRegression.fit raises ValueError when y_train has one class; the
\* dict literal of train_pipeline then never completes
TrainModelsRaises(table) == table.kind = "single_class"

\* evaluate_model: the record's entries that the ranking reads
evaluate_model(table, model_name) ==
    [model_name |-> model_name,
     roc_auc |-> table.perf[model_name].roc_auc,
     train_roc_auc |-> table.perf[model_name].train_roc_auc,
     overfit_gap |-> table.perf[model_name].train_roc_auc
                        - table.perf[model_name].roc_auc]

\* cross_validate_model: the mean and the spread of the fold scores
cross_validate_model(table, model_name) ==
    [cv_mean |-> IF table.cv = "as_test"
                 THEN table.perf[model_name].roc_auc
                 ELSE MaxAuc + 1 - table.perf[model_name].roc_auc,
     cv_std |-> IF table.cv = "as_test" THEN 0 ELSE 1]

\* lines 365-368: metrics = evaluate_model(...); metrics.update(cv_results)
Metrics(table, model_name) ==
    evaluate_model(table, model_name) @@ cross_validate_model(table, model_name)

RowOrders(n) == {f \in [1..n -> 1..n] : \A i, j \in 1..n : f[i] = f[j] => i = j}

SortValuesByRocAuc_Ascending(all_metrics) ==
    {[i \in 1..Len(all_metrics) |-> all_metrics[f[i]]] :
        f \in {g \in RowOrders(Len(all_metrics)) :
                \A i, j \in 1..Len(all_metrics) :
                    i < j => all_metrics[g[i]].roc_auc <= all_metrics[g[j]].roc_auc}}

\* comparison.sort_values('roc_auc', ascending=False): the tables the sort's
\* contract admits.  The default sort kind (quicksort) is not a stable sort:
\* the contract leaves the order of rows with equal roc_auc open.
SortValuesByRocAuc(all_metrics) ==
    {[i \in 1..Len(all_metrics) |-> all_metrics[f[i]]] :
        f \in {g \in RowOrders(Len(all_metrics)) :
                \A i, j \in 1..Len(all_metrics) :
                    i < j => all_metrics[g[i]].roc_auc >= all_metrics[g[j]].roc_auc}}

\* the position of a record in all_metrics (model names are distinct)
PositionIn(all_metrics, row) ==
    CHOOSE i \in DOMAIN all_metrics : all_metrics[i].model_name = row.model_name

SortedByBuild_AnyTieOrder(all_metrics, rank) == SortValuesByRocAuc(all_metrics)

\* a sort that puts, of rows with equal roc_auc, the smaller overfit gap first
SortedByBuild_GapTieBreak(all_metrics, rank) ==
    {comparison \in SortValuesByRocAuc(all_metrics) :
        \A i, j \in DOMAIN comparison :
            (i < j /\ comparison[i].roc_auc = comparison[j].roc_auc) =>
                \/ comparison[i].overfit_gap < comparison[j].overfit_gap
                \/ /\ comparison[i].overfit_gap = comparison[j].overfit_gap
                   /\ rank[PositionIn(all_metrics, comparison[i])]
                        < rank[PositionIn(all_metrics, comparison[j])]}

\* the sorted table the build's sort makes: rows with equal roc_auc in the
\* order of their ranks
SortedByBuild(all_metrics, rank) ==
    {comparison \in SortValuesByRocAuc(all_metrics) :
        \A i, j \in DOMAIN comparison :
            (i < j /\ comparison[i].roc_auc = comparison[j].roc_auc) =>
                rank[PositionIn(all_metrics, comparison[i])]
                    < rank[PositionIn(all_metrics, comparison[j])]}

\* compare_models: what it returns; the table is also what it writes.  The
\* sort is a function of its input: the same records give the same table.
compare_models(all_metrics, rank) ==
    {[best_model_name |-> comparison[1].model_name, comparison |-> comparison] :
        comparison \in SortedByBuild(all_metrics, rank)}

\* a run that ended: its input, how it ended, and what it selected
Ended(table, outcome, best_model_name, comparison) ==
    [table |-> table, outcome |-> outcome,
     best_model_name |-> best_model_name, comparison |-> comparison]

FittedBy(run) == [run |-> run]

\* generate_classification_report(..., output_path)
WriteReport(st, run, model_name) ==
    [st EXCEPT ![<<StoreKey(model_name), "classification_report.json">>] =
                    File(FittedBy(run))]

WriteModel_KeepExisting(st, run, model_name, metrics) ==
    IF Exists(st, <<StoreKey(model_name), "model.pkl">>)
    THEN st
    ELSE [st EXCEPT
            ![<<StoreKey(model_name), "feature_importance.csv">>] = File(FittedBy(run)),
            ![<<StoreKey(model_name), "shap_values.pkl">>] = File(FittedBy(run)),
            ![<<StoreKey(model_name), "model.pkl">>] =
                File([run |-> run, family |-> StoreKey(model_name)]),
            ![<<StoreKey(model_name), "metrics.json">>] = File(metrics)]

\* a STEP 4 that saves the metrics and leaves the rest unwritten
WriteModel_MetricsOnly(st, run, model_name, metrics) ==
    [st EXCEPT ![<<StoreKey(model_name), "metrics.json">>] = File(metrics)]

\* generate_shap_analysis, then save_model
WriteModel(st, run, model_name, metrics) ==
    [st EXCEPT ![<<StoreKey(model_name), "feature_importance.csv">>] = File(FittedBy(run)),
               ![<<StoreKey(model_name), "shap_values.pkl">>] = File(FittedBy(run)),
               ![<<StoreKey(model_name), "model.pkl">>] =
                    File([run |-> run, family |-> StoreKey(model_name)]),
               ![<<StoreKey(model_name), "metrics.json">>] = File(metrics)]

(***************************************************************************)
(* The steps of train_pipeline.  trainer.pc is the call the run is about   *)
(* to make; a run that raises ends there, and what it wrote stays.         *)
(***************************************************************************)
\* STEP 1: prepare_data_pipeline returns, or raises before anything is written
PrepareData(table) ==
    /\ trainer.pc = "idle"
    /\ runs < MaxRuns
    /\ runs' = runs + 1
    /\ trainer' = IF prepare_data_pipeline(table).raised
                  THEN IdleTrainer
                  ELSE [pc |-> "save_preprocessors", run |-> runs + 1, table |-> table]
    /\ ended' = IF prepare_data_pipeline(table).raised
                THEN Append(ended, Ended(table, "prepare_data_pipeline raised", "", <<>>))
                ELSE ended
    /\ UNCHANGED <<store, loader, tie_rank, inferVars, riskVars, prepVars>>

\* save_preprocessors(data['encoders'], data['scaler'], feature_names)
SavePreprocessors ==
    /\ trainer.pc = "save_preprocessors"
    /\ store' = save_preprocessors(store, [encoders |-> FittedBy(trainer.run),
                                           scaler |-> FittedBy(trainer.run),
                                           feature_names |-> FittedBy(trainer.run)])
    /\ trainer' = [trainer EXCEPT !.pc = "train"]
    /\ UNCHANGED <<runs, loader, ended, tie_rank, inferVars, riskVars, prepVars>>

\* STEP 2: the three families are fitted, or the run ends in the first fit
TrainModels ==
    /\ trainer.pc = "train"
    /\ trainer' = IF TrainModelsRaises(trainer.table)
                  THEN IdleTrainer
                  ELSE [pc |-> "evaluate", run |-> trainer.run, table |-> trainer.table,
                        all_metrics |-> <<>>, saved |-> 0]
    /\ ended' = IF TrainModelsRaises(trainer.table)
                THEN Append(ended, Ended(trainer.table, "fit raised", "", <<>>))
                ELSE ended
    /\ UNCHANGED <<store, runs, loader, tie_rank, inferVars, riskVars, prepVars>>

\* STEP 3, one pass of the loop over models.items()
EvaluateModel ==
    /\ trainer.pc = "evaluate"
    /\ \E model_name \in {FamilyOrder[Len(trainer.all_metrics) + 1]} :
        /\ store' = WriteReport(store, trainer.run, model_name)
        /\ trainer' = [trainer EXCEPT
                !.all_metrics = Append(@, Metrics(trainer.table, model_name)),
                !.pc = IF Len(trainer.all_metrics) + 1 = Len(FamilyOrder)
                       THEN "explain" ELSE "evaluate"]
    /\ UNCHANGED <<runs, loader, ended, tie_rank, inferVars, riskVars, prepVars>>

\* STEP 4, one pass of the loop over models.items()
ExplainAndSave ==
    /\ trainer.pc = "explain"
    /\ \E model_name \in {FamilyOrder[trainer.saved + 1]} :
        /\ store' = WriteModel(store, trainer.run, model_name,
                        CHOOSE m \in Range(trainer.all_metrics) :
                            m.model_name = model_name)
        /\ trainer' = [trainer EXCEPT
                !.saved = @ + 1,
                !.pc = IF trainer.saved + 1 = Len(FamilyOrder)
                       THEN "compare" ELSE "explain"]
    /\ UNCHANGED <<runs, loader, ended, tie_rank, inferVars, riskVars, prepVars>>

\* STEP 5: compare_models sorts, writes model_comparison.csv and returns
CompareModels ==
    /\ trainer.pc = "compare"
    /\ \E r \in compare_models(trainer.all_metrics, tie_rank) :
        /\ store' = [store EXCEPT ![<<"", "model_comparison.csv">>] = File(r.comparison)]
        /\ trainer' = [pc |-> "write_best_model_name", run |-> trainer.run,
                       table |-> trainer.table,
                       best_model_name |-> r.best_model_name,
                       comparison |-> r.comparison]
    /\ UNCHANGED <<runs, loader, ended, tie_rank, inferVars, riskVars, prepVars>>

\* f.write(best_model_name), and the run returns
WriteBestModelName ==
    /\ trainer.pc = "write_best_model_name"
    /\ store' = [store EXCEPT ![<<"", "best_model_name.txt">>] =
                                    File(trainer.best_model_name)]
    /\ trainer' = IdleTrainer
    /\ ended' = Append(ended, Ended(trainer.table, "complete",
                                    trainer.best_model_name, trainer.comparison))
    /\ UNCHANGED <<runs, loader, tie_rank, inferVars, riskVars, prepVars>>

(***************************************************************************)
(* predict_churn without arguments, in another process than the training   *)
(* run: it reads the store twice, and a run may write in between.          *)
(***************************************************************************)
\* the call ended in FileNotFoundError
LoaderRaised == [pc |-> "raised"]
\* the call returned predictions
LoaderReturned == [pc |-> "returned"]

\* model = load_best_model()
LoadBestModel ==
    /\ loader.pc \in {"idle", "raised", "returned"}
    /\ \E r \in {load_best_model(store)} :
        loader' = IF r.raised
                  THEN LoaderRaised
                  ELSE [pc |-> "load_preprocessors", model |-> r.model]
    /\ UNCHANGED <<store, runs, trainer, ended, tie_rank, inferVars, riskVars, prepVars>>

\* encoders, scaler, feature_names = load_preprocessors()
LoadPreprocessors ==
    /\ loader.pc = "load_preprocessors"
    /\ \E r \in {load_preprocessors(store)} :
        loader' = IF r.raised
                  THEN LoaderRaised
                  ELSE [pc |-> "score", model |-> loader.model,
                        encoders |-> r.encoders, scaler |-> r.scaler,
                        feature_names |-> r.feature_names]
    /\ UNCHANGED <<store, runs, trainer, ended, tie_rank, inferVars, riskVars, prepVars>>

\* the rest of predict_churn works on what was loaded, and returns
ScoreLoaded ==
    /\ loader.pc = "score"
    /\ loader' = LoaderReturned
    /\ UNCHANGED <<store, runs, trainer, ended, tie_rank, inferVars, riskVars, prepVars>>

Init ==
    /\ store = EmptyStore
    /\ NoInference
    /\ NoTiering
    /\ NoTraining
    /\ tie_rank \in RowOrders(Len(FamilyOrder))

Next ==
    \/ \E table \in TrainingTables : PrepareData(table)
    \/ SavePreprocessors
    \/ TrainModels
    \/ EvaluateModel
    \/ ExplainAndSave
    \/ CompareModels
    \/ WriteBestModelName
    \/ LoadBestModel
    \/ LoadPreprocessors
    \/ ScoreLoaded

Spec == Init /\ [][Next]_vars

\* train_pipeline is a sequential program: a run that has started takes its
\* next step
TrainerStep ==
    \/ SavePreprocessors
    \/ TrainModels
    \/ EvaluateModel
    \/ ExplainAndSave
    \/ CompareModels
    \/ WriteBestModelName

SpecFair == Spec /\ WF_vars(TrainerStep)

(***************************************************************************)
(* The reads of the store that a report or a dashboard makes, in another   *)
(* process than the training runs.  call holds the read and its result.    *)
(***************************************************************************)
Read(op, model_name, r) ==
    /\ pc = "idle"
    /\ call' = [op |-> op, model_name |-> model_name, r |-> r]
    /\ pc' = "returned"
    /\ UNCHANGED <<store, held_bundle, held_model, fit_median, riskVars, lifeVars,
                   prepVars>>

LoadModel == \E n \in Families : Read("load_model", n, load_model(store, n))

LoadModelMetrics ==
    \E n \in Families : Read("load_model_metrics", n, load_model_metrics(store, n))

LoadFeatureImportance ==
    \E n \in Families :
        Read("load_feature_importance", n, load_feature_importance(store, n))

LoadShapValues ==
    \E n \in Families : Read("load_shap_values", n, load_shap_values(store, n))

GetModelComparison == Read("get_model_comparison", "", get_model_comparison(store))

NextRead ==
    \/ \E table \in TrainingTables : PrepareData(table)
    \/ TrainerStep
    \/ LoadModel
    \/ LoadModelMetrics
    \/ LoadFeatureImportance
    \/ LoadShapValues
    \/ GetModelComparison
    \/ Return

InitRead ==
    /\ store = EmptyStore
    /\ NoInference
    /\ NoTiering
    /\ NoTraining
    /\ tie_rank = InsertionOrder

SpecRead == InitRead /\ [][NextRead]_vars

\* one training run on any table
NextSelect ==
    \/ \E table \in AllTables : runs = 0 /\ PrepareData(table)
    \/ SavePreprocessors
    \/ TrainModels
    \/ EvaluateModel
    \/ ExplainAndSave
    \/ CompareModels
    \/ WriteBestModelName

SpecSelect == Init /\ [][NextSelect]_vars

(***************************************************************************)
(* Properties of the artifact store under training runs and loads.         *)
(***************************************************************************)
\* C6: whenever an inference call has loaded a model and a preprocessing
\* bundle from the store, the model, the encoders, the scaler and the
\* feature list were all written by the same training run.
C6_ModelAndBundleSameRun ==
    loader.pc = "score" =>
        /\ loader.encoders.run = loader.model.run
        /\ loader.scaler.run = loader.model.run
        /\ loader.feature_names.run = loader.model.run

ComparisonWritten == Exists(store, <<"", "model_comparison.csv">>)
PointerWritten == Exists(store, <<"", "best_model_name.txt">>)
ComparisonTable == store[<<"", "model_comparison.csv">>].data

\* C10 as claimed: the comparison table is in descending order of test
\* ROC-AUC, of two rows with equal test ROC-AUC the one with the lower
\* overfit gap comes first, and the pointer is the model name of the top row.
C10_RankedWithGapTieBreak ==
    /\ ComparisonWritten =>
        \A i, j \in 1..Len(ComparisonTable) :
            i < j =>
                \/ ComparisonTable[i].roc_auc > ComparisonTable[j].roc_auc
                \/ /\ ComparisonTable[i].roc_auc = ComparisonTable[j].roc_auc
                   /\ ComparisonTable[i].overfit_gap <= ComparisonTable[j].overfit_gap
    /\ PointerWritten =>
        /\ ComparisonWritten
        /\ store[<<"", "best_model_name.txt">>].data = ComparisonTable[1].model_name

\* C10 amended: the comparison table holds the run's evaluation records, one
\* row each, in descending order of test ROC-AUC (rows with equal test
\* ROC-AUC in any order), and the pointer is the model name of the top row.
C10_RankedByTestAuc ==
    /\ ComparisonWritten =>
        /\ Len(ComparisonTable) = Len(FamilyOrder)
        /\ \A n \in Range(FamilyOrder) :
            /\ Exists(store, <<StoreKey(n), "metrics.json">>)
            /\ store[<<StoreKey(n), "metrics.json">>].data \in Range(ComparisonTable)
        /\ \A i, j \in 1..Len(ComparisonTable) :
            i < j => ComparisonTable[i].roc_auc >= ComparisonTable[j].roc_auc
    /\ PointerWritten =>
        /\ ComparisonWritten
        /\ store[<<"", "best_model_name.txt">>].data = ComparisonTable[1].model_name

\* a finished run whose table has two level rows with different overfit
\* gaps above a row with a lower test ROC-AUC
C10_Witness ==
    /\ PointerWritten
    /\ ComparisonWritten
    /\ ComparisonTable[1].roc_auc = ComparisonTable[2].roc_auc
    /\ ComparisonTable[1].overfit_gap # ComparisonTable[2].overfit_gap
    /\ ComparisonTable[2].roc_auc > ComparisonTable[3].roc_auc

(***************************************************************************)
(* Properties of training runs and loads: failures, reruns.                *)
(***************************************************************************)
LastEnded == ended[Len(ended)]

\* C11: a run in which a family's fit fails (a training split with a single
\* class) does not abort: it ends complete, with a comparison table and a
\* best-model pointer written.
C11_FitFailureDoesNotAbort ==
    \A i \in DOMAIN ended :
        ended[i].table.kind = "single_class" =>
            /\ ended[i].outcome = "complete"
            /\ ended[i].best_model_name \in Range(FamilyOrder)
            /\ PointerWritten

\* the family load_best_model resolves in a store
ResolvedFamily(st) ==
    IF Exists(st, <<"", "best_model_name.txt">>)
    THEN StoreKey(st[<<"", "best_model_name.txt">>].data)
    ELSE "xgboost"

ModelInStore(st) == Exists(st, <<ResolvedFamily(st), "model.pkl">>)
BundleInStore(st) == \A path \in BundlePaths : Exists(st, path)

\* C12: predict_churn without arguments ends in the not-found error when the
\* store has no model of the resolved family or no preprocessing bundle, and
\* returns predictions only after it loaded both from the store.
C12_NotFoundWithoutArtifacts ==
    [][/\ (loader.pc \in {"idle", "raised", "returned"} /\ loader' # loader
                /\ ~ModelInStore(store))
            => loader'.pc = "raised"
       /\ (loader.pc = "load_preprocessors" /\ loader' # loader
                /\ ~BundleInStore(store))
            => loader'.pc = "raised"
       /\ (loader'.pc = "load_preprocessors" /\ loader.pc # "load_preprocessors")
            => ModelInStore(store)
       /\ (loader'.pc = "score" /\ loader.pc # "score")
            => (ModelInStore(store) /\ BundleInStore(store))
       /\ (loader'.pc = "returned" /\ loader.pc # "returned")
            => loader.pc = "score"]_vars

\* a call that failed in a store that has a bundle and no model yet
C12_Witness ==
    /\ loader.pc = "raised"
    /\ BundleInStore(store)
    /\ ~ModelInStore(store)

\* C13: load_best_model loads 'xgboost' when the store has no pointer and the
\* family the pointer names when it has one; it fails exactly when that
\* family's model.pkl is absent.
C13_LoadBestModelResolution ==
    [][(loader.pc \in {"idle", "raised", "returned"} /\ loader' # loader) =>
            LET family == IF PointerWritten
                          THEN StoreKey(store[<<"", "best_model_name.txt">>].data)
                          ELSE "xgboost"
            IN IF Exists(store, <<family, "model.pkl">>)
               THEN /\ loader'.pc = "load_preprocessors"
                    /\ loader'.model = store[<<family, "model.pkl">>].data
               ELSE loader'.pc = "raised"]_vars

\* a load that took the fallback family while no pointer was written, in a
\* store where another family's model is there too
C13_Witness ==
    /\ loader.pc = "load_preprocessors"
    /\ ~PointerWritten
    /\ loader.model.family = "xgboost"
    /\ Exists(store, <<"logistic_regression", "model.pkl">>)

\* C14: a run on a table without the target column ends in the error of the
\* data preparation, in its first step, and leaves the store as it was.
C14_NoTargetWritesNothing ==
    [][(Len(ended') > Len(ended) /\ ended'[Len(ended')].table.kind = "no_target") =>
            /\ ended'[Len(ended')].outcome = "prepare_data_pipeline raised"
            /\ trainer.pc = "idle"
            /\ trainer'.pc = "idle"
            /\ store' = store]_vars

\* a run without the target column over the store a complete run left
C14_Witness ==
    /\ Len(ended) = 2
    /\ ended[1].outcome = "complete"
    /\ ended[2].table.kind = "no_target"
    /\ PointerWritten

\* C19: after a complete run and with no run in progress, the store holds
\* exactly the fixed set of paths, however many runs went before, and every
\* artifact is the one the last run wrote: nothing of an earlier run is
\* left, nothing is appended.
C19_RerunOverwrites ==
    (trainer.pc = "idle" /\ Len(ended) > 0 /\ LastEnded.outcome = "complete") =>
        /\ {path \in Paths : Exists(store, path)} = Paths
        /\ \A path \in BundlePaths : store[path].data = FittedBy(runs)
        /\ \A n \in Range(FamilyOrder) :
            /\ store[<<StoreKey(n), "model.pkl">>].data.run = runs
            /\ store[<<StoreKey(n), "shap_values.pkl">>].data = FittedBy(runs)
            /\ store[<<StoreKey(n), "feature_importance.csv">>].data = FittedBy(runs)
            /\ store[<<StoreKey(n), "classification_report.json">>].data = FittedBy(runs)
            /\ store[<<StoreKey(n), "metrics.json">>].data
                    = Metrics(LastEnded.table, n)
        /\ ComparisonTable = LastEnded.comparison
        /\ Len(ComparisonTable) = Len(FamilyOrder)
        /\ store[<<"", "best_model_name.txt">>].data = LastEnded.best_model_name

\* two complete runs on the same table
C19_Witness ==
    /\ trainer.pc = "idle"
    /\ Len(ended) = 2
    /\ ended[1].outcome = "complete"
    /\ ended[2].outcome = "complete"
    /\ ended[1].table = ended[2].table

AllMetrics(table) == [i \in DOMAIN FamilyOrder |-> Metrics(table, FamilyOrder[i])]

\* the tables whose families have the test ROC-AUC values of a table, with
\* any training ROC-AUC (so any overfit gap) and any cross-validation result
SameTestAuc(table) ==
    {TableCv("valid",
             [n \in Range(FamilyOrder) |->
                 Perf(table.perf[n].roc_auc, train[n])], cv) :
        train \in [Range(FamilyOrder) -> AucValues], cv \in CvKinds}

\* C23: the model a complete run selected is the one every run of the same
\* build selects on a table with the same test ROC-AUC values, whatever its
\* cross-validation means and spreads and its overfit gaps
C23_SelectionReadsTestAucOnly ==
    (ended # <<>> /\ LastEnded.outcome = "complete") =>
        \A other \in SameTestAuc(LastEnded.table) :
            \A r \in compare_models(AllMetrics(other), tie_rank) :
                r.best_model_name = LastEnded.best_model_name

\* a complete run whose two level top families differ in overfit gap and in
\* cross-validation mean, and that selected the one with the larger gap
C23_Witness ==
    /\ ended # <<>>
    /\ LastEnded.outcome = "complete"
    /\ LastEnded.comparison[1].roc_auc = LastEnded.comparison[2].roc_auc
    /\ LastEnded.comparison[1].overfit_gap > LastEnded.comparison[2].overfit_gap
    /\ LastEnded.table.cv = "reversed"
    /\ LastEnded.comparison[1].cv_mean < LastEnded.comparison[3].cv_mean

\* the files STEP 4 writes for a family
FamilyFiles == {"model.pkl", "metrics.json", "feature_importance.csv", "shap_values.pkl"}

\* the bundle in the store is the one run r saved
BundleOf(r) ==
    \A path \in BundlePaths : Exists(store, path) /\ store[path].data = FittedBy(r)

\* the model of a family in the store is the one run r saved
ModelOf(family, r) ==
    /\ Exists(store, <<family, "model.pkl">>)
    /\ store[<<family, "model.pkl">>].data.run = r

\* every family's model, metrics, importance table and attribution file are
\* in the store, the model from run r
AllFamiliesSavedBy(r) ==
    \A n \in Range(FamilyOrder) :
        /\ ModelOf(StoreKey(n), r)
        /\ \A f \in FamilyFiles : Exists(store, <<StoreKey(n), f>>)

\* the order of a run's writes, as a step property
WriteOrder ==
    /\ \A family \in Families :
          (trainer.pc # "idle" /\ ModelOf(family, trainer.run)) =>
              BundleOf(trainer.run)
    /\ trainer.pc \in {"compare", "write_best_model_name"} =>
          BundleOf(trainer.run) /\ AllFamiliesSavedBy(trainer.run)
    /\ trainer.pc = "write_best_model_name" =>
          ComparisonWritten /\ ComparisonTable = trainer.comparison
    /\ (Len(ended') > Len(ended) /\ ended'[Len(ended')].outcome = "complete") =>
          /\ PointerWritten' /\ ~(PointerWritten /\ runs = 1)
          /\ store'[<<"", "best_model_name.txt">>].data
                 = ended'[Len(ended')].best_model_name
          /\ ComparisonWritten
          /\ ComparisonTable = ended'[Len(ended')].comparison
          /\ ModelOf(StoreKey(ended'[Len(ended')].best_model_name), runs)

C28_StoreKeyRoundTrip ==
    /\ \A n \in Range(FamilyOrder) :
          n \in DOMAIN model_name_map /\ model_name_map[n] = StoreKey(n)
    /\ (ended # <<>> /\ LastEnded.outcome = "complete" /\ trainer.pc = "idle") =>
          /\ ~load_best_model(store).raised
          /\ load_best_model(store).model =
                [run |-> runs, family |-> StoreKey(LastEnded.best_model_name)]
          /\ store[<<"", "best_model_name.txt">>].data = LastEnded.best_model_name

\* a complete run selected the bagged-tree family and a load resolved it
C28_Witness ==
    /\ ended # <<>>
    /\ LastEnded.outcome = "complete"
    /\ LastEnded.best_model_name = "Random Forest"
    /\ trainer.pc = "idle"
    /\ loader.pc = "load_preprocessors"
    /\ loader.model = [run |-> runs, family |-> "random_forest"]

\* a read of the store has just returned or raised
ReadDone(op) == pc = "idle" /\ pc' = "returned" /\ call'.op = op

\* the content of a file of the store, or None when the file is absent
Content(path) == IF Exists(store, path) THEN Some(store[path].data) ELSE None

\* C30: load_model_metrics, load_feature_importance and get_model_comparison
\* return None, and load_shap_values (None, None), when the artifact is
\* absent, and its content when it is there; load_model raises when the
\* model is absent; none of the reads changes the store
C30_OptionalReadsReturnNone ==
    [][/\ (pc = "idle" /\ pc' = "returned") => store' = store
       /\ ReadDone("load_model_metrics") =>
            call'.r = Value(Content(<<call'.model_name, "metrics.json">>))
       /\ ReadDone("load_feature_importance") =>
            call'.r = Value(Content(<<call'.model_name, "feature_importance.csv">>))
       /\ ReadDone("get_model_comparison") =>
            call'.r = Value(Content(<<"", "model_comparison.csv">>))
       /\ ReadDone("load_shap_values") =>
            call'.r = Value(<<Content(<<call'.model_name, "shap_values.pkl">>),
                              Content(<<call'.model_name, "shap_values.pkl">>)>>)
       /\ ReadDone("load_model") =>
            call'.r.raised = ~Exists(store, <<call'.model_name, "model.pkl">>)]_vars

\* during STEP 4 of a run: the first family's metrics were read, the last
\* family has no metrics yet and its read returned None
C30_Witness ==
    /\ pc = "returned"
    /\ call.op = "load_model_metrics"
    /\ call.model_name = "xgboost"
    /\ call.r = Value(None)
    /\ Exists(store, <<"logistic_regression", "metrics.json">>)
    /\ ~Exists(store, <<"xgboost", "metrics.json">>)
    /\ ~ComparisonWritten

\* the bundle in the store, as load_preprocessors returns it
StoreBundle ==
    [encoders |-> store[<<"", "encoders.pkl">>].data,
     scaler |-> store[<<"", "scaler.pkl">>].data,
     feature_names |-> store[<<"", "feature_names.pkl">>].data]

\* C29: predict_churn preprocesses with the caller's encoders, scaler and
\* feature names when all three are passed and not None, and with the three
\* objects of the store when any of them is None, the scaler of a bundle
\* without one included; predict_single_customer always preprocesses with
\* the store's bundle, with or without an explicit model
C29_BundleArgumentsAllOrNothing ==
    /\ (Returned /\ call.op = "predict_churn") =>
          /\ "after" \in DOMAIN call.r
          /\ call.r.after =
                IF /\ call.args.encoders # None
                   /\ call.args.scaler # None
                   /\ call.args.feature_names # None
                THEN held_bundle
                ELSE StoreBundle
          /\ call.r.X.cols = call.r.after.feature_names
    /\ (Returned /\ call.op = "predict_single_customer") =>
          /\ "after" \in DOMAIN call.r
          /\ call.r.after = StoreBundle
          /\ call.r.X.cols = StoreBundle.feature_names

\* the caller passed its encoders and feature names and the None scaler of
\* its unscaled bundle: the call used the store's three objects
C29_Witness ==
    /\ Returned
    /\ call.op = "predict_churn"
    /\ held_bundle.scaler = None
    /\ call.args.encoders # None
    /\ call.args.feature_names # None
    /\ call.args.scaler = None
    /\ held_bundle.feature_names # StoreBundle.feature_names
    /\ call.r.after = StoreBundle

(***************************************************************************)
(* train_model.py: train_xgboost and generate_shap_analysis, each called   *)
(* on its own with inputs of its parameter types.                          *)
(***************************************************************************)
Inf == [k |-> "inf"]
Ratio(num, den) == [k |-> "ratio", num |-> num, den |-> den]

\* (y_train == c).sum()
CountOf(y_train, c) == Cardinality({i \in DOMAIN y_train : y_train[i] = c})

\* line 60: a division of two numpy integers; by zero it gives inf, or nan
\* for 0 / 0, with a RuntimeWarning and no exception
scale_pos_weight(y_train) ==
    IF CountOf(y_train, 1) = 0
    THEN IF CountOf(y_train, 0) = 0 THEN NaN ELSE Inf
    ELSE Ratio(CountOf(y_train, 0), CountOf(y_train, 1))

\* XGBClassifier(...).fit(X_train, y_train): with both classes it returns
\* the fitted model; with a single class the installed xgboost either fits
\* or raises
XGBClassifierFit(y_train, weight) ==
    IF Range(y_train) = {0, 1}
    THEN {[raised |-> FALSE, scale_pos_weight |-> weight]}
    ELSE {[raised |-> FALSE, scale_pos_weight |-> weight], [raised |-> TRUE]}

\* train_xgboost(X_train, y_train): the outcomes of the call
train_xgboost(y_train) == XGBClassifierFit(y_train, scale_pos_weight(y_train))

LabelVectors == UNION {[1..n -> {0, 1}] : n \in 1..MaxLabels}

TrainXgboost ==
    /\ pc = "idle"
    /\ \E y_train \in LabelVectors : \E r \in train_xgboost(y_train) :
          call' = [op |-> "train_xgboost", y_train |-> y_train, r |-> r]
    /\ pc' = "returned"
    /\ UNCHANGED <<store, held_bundle, held_model, fit_median, riskVars, lifeVars,
                   prepVars>>

\* the rows the linear family's explainer is given: X_test[:100]
KernelRows == 100

Min(a, b) == IF a < b THEN a ELSE b
Abs(x) == IF x < 0 THEN 0 - x ELSE x

\* the number of leading rows of X_test that get an attribution vector
ExplainedRows_AllRows(model_name, n_test) == n_test

ExplainedRows(model_name, n_test) ==
    IF model_name \in {"XGBoost", "Random Forest"}
    THEN n_test
    ELSE Min(KernelRows, n_test)

\* the sum of |shap_values[i][f]| over the rows 1..k
RECURSIVE SumAbs(_, _, _)
SumAbs(shap_values, f, k) ==
    IF k = 0 THEN 0 ELSE Abs(shap_values[k][f]) + SumAbs(shap_values, f, k - 1)

\* np.abs(shap_values).mean(axis=0): the mean as sum over count
MeanAbs(shap_values, f, k) == [sum |-> SumAbs(shap_values, f, k), n |-> k]

\* sort_values('importance', ascending=False): the orders the sort admits
SortValuesByImportance(rows) ==
    {[i \in DOMAIN rows |-> rows[g[i]]] :
        g \in {h \in RowOrders(Len(rows)) :
                \A i, j \in DOMAIN rows :
                    i < j => rows[h[i]].importance.sum >= rows[h[j]].importance.sum}}

\* generate_shap_analysis: the feature_importance tables it can write;
\* attributions[i] is the attribution vector the explainer gives row i
generate_shap_analysis(model_name, attributions, n_test, feature_names) ==
    Let(ExplainedRows(model_name, n_test), LAMBDA k :
        SortValuesByImportance(
            [j \in DOMAIN feature_names |->
                [feature |-> feature_names[j],
                 importance |-> MeanAbs(attributions, feature_names[j], k)]]))

\* the features and the attribution values of the explainers' outputs
ShapFeatures == <<"tenure_days", "device_type">>
AttributionValues == {0 - 2, 0, 1}
TestSizes == {2, MaxTestRows}

\* the attribution vectors of a test split: head for the rows up to split,
\* tail for the rows after it
Attributions(n_test, split, head, tail) ==
    [i \in 1..n_test |-> IF i <= split THEN head ELSE tail]

GenerateShapAnalysis ==
    /\ pc = "idle"
    /\ \E model_name \in Range(FamilyOrder), n_test \in TestSizes,
          split \in {1, KernelRows},
          head \in [Range(ShapFeatures) -> AttributionValues],
          tail \in [Range(ShapFeatures) -> AttributionValues] :
       \E attributions \in {Attributions(n_test, split, head, tail)} :
       \E r \in generate_shap_analysis(model_name, attributions, n_test, ShapFeatures) :
          call' = [op |-> "generate_shap_analysis", model_name |-> model_name,
                   n_test |-> n_test, split |-> Min(split, n_test),
                   head |-> head, tail |-> tail, r |-> r]
    /\ pc' = "returned"
    /\ UNCHANGED <<store, held_bundle, held_model, fit_median, riskVars, lifeVars,
                   prepVars>>

InitFit ==
    /\ store = EmptyStore
    /\ NoInference
    /\ NoTiering
    /\ NoTraining
    /\ tie_rank = InsertionOrder

NextFit ==
    \/ TrainXgboost
    \/ GenerateShapAnalysis
    \/ Return

SpecFit == InitFit /\ [][NextFit]_vars

\* the sum of the absolute attributions of feature f over the first k rows
\* of the test split of the call
HeadTailSum(f, k) ==
    Min(k, call.split) * Abs(call.head[f])
        + (k - Min(k, call.split)) * Abs(call.tail[f])

\* the importance table of the call has one row per feature, no negative
\* importance, is in descending order, and each importance is the mean
\* absolute attribution over the first k(model_name) rows of the test split
ImportanceOverRows(k(_)) ==
    (Returned /\ call.op = "generate_shap_analysis") =>
        /\ Len(call.r) = Len(ShapFeatures)
        /\ {call.r[i].feature : i \in DOMAIN call.r} = Range(ShapFeatures)
        /\ \A i \in DOMAIN call.r :
              /\ call.r[i].importance.n = k(call.model_name)
              /\ call.r[i].importance.sum
                    = HeadTailSum(call.r[i].feature, k(call.model_name))
              /\ call.r[i].importance.sum >= 0
        /\ \A i, j \in DOMAIN call.r :
              i < j => call.r[i].importance.sum >= call.r[j].importance.sum

C25_WeightIsClassRatioOrFails ==
    (Returned /\ call.op = "train_xgboost") =>
        IF CountOf(call.y_train, 1) = 0
        THEN call.r.raised
        ELSE ~call.r.raised =>
               call.r.scale_pos_weight
                   = Ratio(CountOf(call.y_train, 0), CountOf(call.y_train, 1))


(***************************************************************************)
(* data_prep.py: prepare_data_pipeline, step by step, on tables of ten     *)
(* rows.  Four rows of each class are fixed, the fifth is any of           *)
(* FreeCells; the table has any of the declared columns.                   *)
(***************************************************************************)
PrepRow(t, d, y) ==
    [customer_id |-> Num(6), tenure_days |-> t, monthly_charges |-> Num(2),
     device_type |-> d, churn_flag |-> Num(y)]

FreeCells == [t : {Num(8), NaN}, d : {Str("Tablet"), NaN}]

\* d is the device_type of the fixed rows
PrepRows(d, free0, free1) ==
    << PrepRow(Num(0), d, 0), PrepRow(Num(0), d, 0), PrepRow(Num(4), d, 0),
       PrepRow(Num(4), d, 0), PrepRow(free0.t, free0.d, 0),
       PrepRow(Num(4), d, 1), PrepRow(Num(4), d, 1), PrepRow(Num(8), d, 1),
       PrepRow(Num(8), d, 1), PrepRow(free1.t, free1.d, 1) >>

\* the column lists of the input tables: every subset of the declared
\* columns and the target, in the declared order and in the reverse order
Reverse(s) == [i \in 1..Len(s) |-> s[Len(s) + 1 - i]]

PrepColumnLists ==
    LET declared_order ==
          {SelectIn(<<"customer_id", "tenure_days", "monthly_charges", "device_type",
                      "churn_flag">>, {"customer_id"} \cup S) :
              S \in SUBSET {"tenure_days", "monthly_charges", "device_type",
                            "churn_flag"}}
    IN declared_order \cup {Reverse(cols) : cols \in declared_order}

PrepTables ==
    {SelectColumns([cols |-> <<>>, rows |-> PrepRows(d, free0, free1)], cols) :
        d \in {Str("Mobile"), NaN}, free0 \in FreeCells, free1 \in FreeCells,
        cols \in PrepColumnLists}

PrepRaised(df, step) == [pc |-> "raised", df |-> df, step |-> step]

\* lines 282-299: the table is loaded; ValueError without the target column
LoadData(df) ==
    /\ prepared.pc = "idle"
    /\ prepared' = IF TARGET_COLUMN \notin Range(df.cols)
                   THEN PrepRaised(df, "prepare_data_pipeline")
                   ELSE [pc |-> "prepare_features", df |-> df]
    /\ UNCHANGED <<store, inferVars, riskVars, lifeVars>>

\* X, y, feature_names, encoders = prepare_features(df)
PrepareFeatures ==
    /\ prepared.pc = "prepare_features"
    /\ \E r \in {prepare_features(prepared.df)} :
        prepared' = IF r.raised
                    THEN PrepRaised(prepared.df, "prepare_features")
                    ELSE [pc |-> "create_train_test_split", df |-> prepared.df,
                          X |-> r.X, y |-> r.y, feature_names |-> r.feature_names,
                          encoders |-> r.encoders, medians |-> r.medians]
    /\ UNCHANGED <<store, inferVars, riskVars, lifeVars>>

\* create_train_test_split(X, y): train is the set of training rows
CreateTrainTestSplit ==
    /\ prepared.pc = "create_train_test_split"
    /\ IF TrainSplits(prepared.y) = {}
       THEN prepared' = PrepRaised(prepared.df, "create_train_test_split")
       ELSE \E T \in TrainSplits(prepared.y) :
            prepared' = [pc |-> "scale_features", df |-> prepared.df,
                         X |-> prepared.X, y |-> prepared.y,
                         feature_names |-> prepared.feature_names,
                         encoders |-> prepared.encoders,
                         medians |-> prepared.medians, train |-> T]
    /\ UNCHANGED <<store, inferVars, riskVars, lifeVars>>

\* scale_features(X_train, X_test), and the pipeline returns; StandardScaler
\* raises ValueError on a matrix without columns
ScaleFeatures ==
    /\ prepared.pc = "scale_features"
    /\ IF prepared.feature_names = <<>>
       THEN prepared' = PrepRaised(prepared.df, "scale_features")
       ELSE \E r \in {scale_features(TakeRows(prepared.X, prepared.train),
                                     TakeRows(prepared.X,
                                              DOMAIN prepared.y \ prepared.train))} :
                prepared' = [pc |-> "returned", df |-> prepared.df,
                             X |-> prepared.X, y |-> prepared.y,
                             feature_names |-> prepared.feature_names,
                             encoders |-> prepared.encoders,
                             medians |-> prepared.medians,
                             train |-> prepared.train,
                             scaler |-> r.scaler,
                             X_test_scaled |-> r.X_test_scaled]
    /\ UNCHANGED <<store, inferVars, riskVars, lifeVars>>

InitPrep ==
    /\ store = EmptyStore
    /\ NoInference
    /\ NoTiering
    /\ NoTraining
    /\ tie_rank = InsertionOrder

NextPrep ==
    \/ \E df \in PrepTables : LoadData(df)
    \/ PrepareFeatures
    \/ CreateTrainTestSplit
    \/ ScaleFeatures

SpecPrep == InitPrep /\ [][NextPrep]_vars

(***************************************************************************)
(* Properties of the data preparation.                                     *)
(***************************************************************************)
FeaturesPrepared ==
    prepared.pc \in {"create_train_test_split", "scale_features", "returned"}
SplitMade == prepared.pc \in {"scale_features", "returned"}

\* C15: on a table with the target column and none of the declared feature
\* columns, prepare_features raises; it does not return an empty matrix.
C15_ZeroFeaturesRaises ==
    (/\ prepared.pc \notin {"idle", "prepare_features"}
     /\ TARGET_COLUMN \in Range(prepared.df.cols)
     /\ SelectIn(FEATURE_COLUMNS, Range(prepared.df.cols)) = <<>>)
        => (prepared.pc = "raised" /\ prepared.step = "prepare_features")

\* the cells of column c of df in the rows T, in row order
CellsIn(df, c, T) == [j \in 1..Cardinality(T) |-> df.rows[Ascending(T)[j]][c]]

\* C16: what feature preparation learns comes from the training rows only:
\* the classes of each encoder are exactly the categories of the training
\* rows, and the median a numeric column is imputed with is the median of
\* the column over the training rows.
C16_StatisticsFromTrainingSplit ==
    SplitMade =>
        /\ \A c \in DOMAIN prepared.encoders :
            Range(prepared.encoders[c])
                = {prepared.encoders[c][prepared.X.rows[i][c].v + 1] :
                        i \in prepared.train}
        /\ \A c \in DOMAIN prepared.medians :
            prepared.medians[c] = Median(CellsIn(prepared.df, c, prepared.train))

NumericValues(cells) ==
    LET present == SelectSeq(cells, LAMBDA x : IsNum(x))
    IN [i \in DOMAIN present |-> present[i].v]

\* C17: the scaler a run returns was fit on the training rows only (its
\* count, sum and sum of squares per column are those of the training rows),
\* and the test rows are transformed with that scaler.
C17_ScalerFitOnTrainingSplit ==
    prepared.pc = "returned" =>
        \A c \in Range(prepared.feature_names) :
            LET vals == NumericValues(CellsIn(prepared.X, c, prepared.train))
                test == DOMAIN prepared.y \ prepared.train
            IN /\ prepared.scaler[c].n = Len(vals)
               /\ prepared.scaler[c].sum = SumSeq(vals)
               /\ prepared.scaler[c].sumsq
                    = SumSeq([i \in DOMAIN vals |-> vals[i] * vals[i]])
               /\ \A j \in 1..Cardinality(test) :
                    prepared.X_test_scaled.rows[j][c]
                        = ScaleCell(prepared.scaler[c],
                                    prepared.X.rows[Ascending(test)[j]][c])

\* a returned run whose test rows are the two free rows, with values the
\* training rows do not all share
C17_Witness ==
    /\ prepared.pc = "returned"
    /\ "tenure_days" \in Range(prepared.feature_names)
    /\ "device_type" \in Range(prepared.feature_names)
    /\ DOMAIN prepared.y \ prepared.train = {5, 10}
    /\ prepared.df.rows[5]["device_type"] = Str("Tablet")

\* C18: in the matrix prepare_features returns, a missing value of a
\* declared categorical column is the code of the category "MISSING", and a
\* missing value of any other column is the column's median.
C18_TrainingMissingValuePolicy ==
    FeaturesPrepared =>
        \A c \in Range(prepared.feature_names) :
            \A i \in DOMAIN prepared.df.rows :
                IsNaN(prepared.df.rows[i][c]) =>
                    IF c \in Range(CATEGORICAL_COLUMNS)
                    THEN /\ c \in DOMAIN prepared.encoders
                         /\ IsNum(prepared.X.rows[i][c])
                         /\ prepared.encoders[c][prepared.X.rows[i][c].v + 1] = "MISSING"
                    ELSE prepared.X.rows[i][c] = Median(Column(prepared.df, c))

\* the place of a column in the declared feature list
DeclaredPlace(c) == CHOOSE k \in DOMAIN FEATURE_COLUMNS : FEATURE_COLUMNS[k] = c

\* C24: prepare_features on a table with the target never raises for an
\* absent declared column; its feature-name list is the declared columns
\* that are present, in the declared order whatever the order of the table's
\* columns, and the matrix has exactly those columns
C24_DeclaredColumnsInDeclaredOrder ==
    /\ (prepared.pc = "raised" /\ TARGET_COLUMN \in Range(prepared.df.cols)) =>
           prepared.step # "prepare_features"
    /\ prepared.pc = "create_train_test_split" =>
        /\ Range(prepared.feature_names) =
               Range(FEATURE_COLUMNS) \cap Range(prepared.df.cols)
        /\ \A i, j \in DOMAIN prepared.feature_names :
               i < j => DeclaredPlace(prepared.feature_names[i])
                          < DeclaredPlace(prepared.feature_names[j])
        /\ prepared.X.cols = prepared.feature_names
        /\ \A i \in DOMAIN prepared.X.rows :
               DOMAIN prepared.X.rows[i] = Range(prepared.feature_names)
        /\ TARGET_COLUMN \notin Range(prepared.X.cols)
        /\ "customer_id" \notin Range(prepared.X.cols)

C24_Witness ==
    /\ prepared.pc = "create_train_test_split"
    /\ prepared.df.cols = <<"churn_flag", "device_type", "tenure_days", "customer_id">>
    /\ prepared.feature_names = <<"tenure_days", "device_type">>
    /\ prepared.X.cols = <<"tenure_days", "device_type">>

=============================================================================
